---- MODULE Spec2Model ----
(***************************************************************************)
(* Complete tree exploration for multi-player bandits                      *)
(* (complete_tree_exploration_for_MP_bandits.py).                          *)
(*                                                                         *)
(* A State object is a record; the heap of State objects is a sequence     *)
(* indexed by object identity.  Players and arms are numbered from 0 as in *)
(* the source, so matrices are functions [0..rows-1 -> [0..cols-1 -> Int]] *)
(* and a joint decision / coin-flip vector is a function on 0..n-1.        *)
(* Lists whose order the code depends on are sequences.                    *)
(* Probabilities are exact rationals (fractions.Fraction): pairs <<n, d>>  *)
(* in lowest terms with d > 0.                                             *)
(***************************************************************************)
EXTENDS Integers, Sequences, FiniteSets, TLC

VARIABLES
    pc,             \* position of the caller: "start", "exploring", "done", "error"
    request,        \* the arguments of the current call (main or direct)
    FULLHASH,       \* module global FULLHASH (hash mode of this process)
    iteration,      \* order in which compute_one_depth consumes all_deltas()
    heap,           \* the State objects, by identity 1..Len(heap)
    stack,          \* pending calls of explore_from_node_to_depth, innermost first
    expanded,       \* identities on which compute_one_depth has run (this run)
    trace,          \* locals of the last compute_one_depth: parent before, raw transitions
    result,         \* what get_unique_leafs() returned after the exploration
    run,            \* 1 = first exploration, 2 = the repeated one
    first           \* summary of the first exploration, kept for the repeated one

vars == <<pc, request, FULLHASH, iteration, heap, stack, expanded, trace, result, run, first>>

----------------------------------------------------------------------------
(* Bounds of the model *)

MaxDepth == 2

(* Program constants *)

MAXARMS == 10
MAXDEPTH == 8

----------------------------------------------------------------------------
(* fractions.Fraction *)

Abs(x) == IF x < 0 THEN -x ELSE x

RECURSIVE gcd(_, _)
gcd(a, b) == IF b = 0 THEN a ELSE gcd(b, a % b)

Fraction(n, d) == LET g == gcd(Abs(n), d) IN <<n \div g, d \div g>>

Zero == <<0, 1>>
One == <<1, 1>>

FracAdd(p, q) ==
    LET l == (p[2] \div gcd(p[2], q[2])) * q[2]
    IN  Fraction(p[1] * (l \div p[2]) + q[1] * (l \div q[2]), l)

FracSub(p, q) == FracAdd(p, <<-q[1], q[2]>>)

FracMul(p, q) ==
    LET g1 == gcd(Abs(p[1]), q[2])
        g2 == gcd(Abs(q[1]), p[2])
    IN  Fraction((p[1] \div g1) * (q[1] \div g2), (p[2] \div g2) * (q[2] \div g1))

FracDivInt(p, n) == FracMul(p, <<1, n>>)

\* sum of ps[lo..hi], added by halves (exact, so the order of additions is immaterial)
RECURSIVE FracSum(_, _, _)
FracSum(ps, lo, hi) ==
    IF lo > hi THEN Zero
    ELSE IF lo = hi THEN ps[lo]
    ELSE LET mid == (lo + hi) \div 2
         IN  FracAdd(FracSum(ps, lo, mid), FracSum(ps, mid + 1, hi))

sum(ps) == FracSum(ps, 1, Len(ps))

----------------------------------------------------------------------------
(* Small helpers: itertools.product, prod, np.sum, np.zeros *)

\* prod(iterator): p = 1; for v in iterator: p *= v   (integers)
RECURSIVE prodInt(_, _)
prodInt(f, n) == IF n = 0 THEN 1 ELSE prodInt(f, n - 1) * f[n - 1]

\* mutant of prod: the product starts from p = 0
RECURSIVE prod_from_zero(_, _)
prod_from_zero(f, n) ==
    IF n = 0 THEN Zero ELSE FracMul(prod_from_zero(f, n - 1), f[n - 1])

\* prod(iterator) over probabilities, f a function on 0..n-1
RECURSIVE prod(_, _)
prod(f, n) == IF n = 0 THEN One ELSE FracMul(prod(f, n - 1), f[n - 1])

\* itertools.product(*lists): lists a function on 0..n-1 of sequences; the result
\* is the sequence of tuples (functions on 0..n-1), last list varying fastest.
RECURSIVE product(_, _)
product(lists, n) ==
    IF n = 0 THEN << <<>> >>
    ELSE LET rest == product(lists, n - 1)
             l == lists[n - 1]
         IN  [i \in 1..(Len(rest) * Len(l)) |->
                 [j \in 0..(n - 1) |->
                     IF j = n - 1 THEN l[((i - 1) % Len(l)) + 1]
                     ELSE rest[((i - 1) \div Len(l)) + 1][j]]]

zeros(rows, cols) == [j \in 0..(rows - 1) |-> [k \in 0..(cols - 1) |-> 0]]

Rows(A) == Cardinality(DOMAIN A)
Cols(A) == IF Rows(A) = 0 THEN 0 ELSE Cardinality(DOMAIN A[0])
shape(A) == <<Rows(A), Cols(A)>>

Min2(a, b) == IF a <= b THEN a ELSE b
Max2(a, b) == IF a >= b THEN a ELSE b

RECURSIVE rowSum(_, _)
rowSum(r, n) == IF n = 0 THEN 0 ELSE rowSum(r, n - 1) + r[n - 1]

RECURSIVE matSum(_, _)
matSum(A, n) == IF n = 0 THEN 0 ELSE matSum(A, n - 1) + rowSum(A[n - 1], Cols(A))

npsum(A) == matSum(A, Rows(A))

\* np.where(P)[0] on 0..n-1: the positions satisfying P, ascending
RECURSIVE where(_, _)
where(P, n) ==
    IF n = 0 THEN <<>>
    ELSE IF P[n - 1] THEN Append(where(P, n - 1), n - 1) ELSE where(P, n - 1)

Range(s) == {s[i] : i \in DOMAIN s}

\* ss[lo] \o ... \o ss[hi], concatenated by halves
RECURSIVE ConcatRange(_, _, _)
ConcatRange(ss, lo, hi) ==
    IF lo > hi THEN <<>>
    ELSE IF lo = hi THEN ss[lo]
    ELSE LET mid == (lo + hi) \div 2
         IN  ConcatRange(ss, lo, mid) \o ConcatRange(ss, mid + 1, hi)

Concat(ss, n) == ConcatRange(ss, 1, n)

Reverse(s) ==
    LET n == Len(s)
    IN  [i \in 1..n |-> s[n + 1 - i]]

----------------------------------------------------------------------------
(* Decision rules.  An index is a pair <<num, den>>; oo is float('+inf'). *)

oo == <<1, 0>>

IdxLE(a, b) == a[1] * b[2] <= b[1] * a[2]

\* mutant of choices_from_indexes: the first position of the maximum alone
\* (np.argmax)
choices_from_indexes_argmax(indexes, n) ==
    <<CHOOSE k \in 0..(n - 1) :
          /\ \A k2 \in 0..(n - 1) : IdxLE(indexes[k2], indexes[k])
          /\ \A k2 \in 0..(k - 1) : ~IdxLE(indexes[k], indexes[k2])>>

\* np.where(indexes == np.max(indexes))[0]
choices_from_indexes(indexes, n) ==
    where([k \in 0..(n - 1) |-> \A k2 \in 0..(n - 1) : IdxLE(indexes[k2], indexes[k])], n)

\* mutant of FixedArm: the targeted arm moves on by one at every round
FixedArm_rotating(j, state) == <<(j + state.t) % state.K>>

FixedArm(j, state) == <<j>>

UniformExploration(j, state) == [i \in 1..state.K |-> i - 1]

Selfish_0Greedy_U(j, state) ==
    LET n == Cols(state.N)
        indexes == [k \in 0..(n - 1) |->
                       IF state.N[j][k] < 1 THEN oo
                       ELSE <<state.S[j][k], state.N[j][k]>>]
    IN  choices_from_indexes(indexes, n)

\* mutant of Selfish_0Greedy_Utilde: the index is computed from S
Selfish_0Greedy_Utilde_S(j, state) ==
    LET n == Cols(state.N)
        indexes == [k \in 0..(n - 1) |->
                       IF state.N[j][k] < 1 THEN oo
                       ELSE <<state.S[j][k], state.N[j][k]>>]
    IN  choices_from_indexes(indexes, n)

Selfish_0Greedy_Utilde(j, state) ==
    LET n == Cols(state.N)
        indexes == [k \in 0..(n - 1) |->
                       IF state.N[j][k] < 1 THEN oo
                       ELSE <<state.Stilde[j][k], state.N[j][k]>>]
    IN  choices_from_indexes(indexes, n)

Selfish_0Greedy_Ubar(j, state) ==
    LET n == Cols(state.N)
        indexes == [k \in 0..(n - 1) |->
                       IF state.N[j][k] < 1 THEN oo
                       ELSE <<state.Ntilde[j][k] * state.S[j][k],
                              state.N[j][k] * state.N[j][k]>>]
    IN  choices_from_indexes(indexes, n)

default_policy == "Selfish_0Greedy_Ubar"

\* player(j, self) for the rule named `name`
player(name, j, state) ==
    CASE name = "FixedArm" -> FixedArm(j, state)
      [] name = "UniformExploration" -> UniformExploration(j, state)
      [] name = "Selfish_0Greedy_U" -> Selfish_0Greedy_U(j, state)
      [] name = "Selfish_0Greedy_Utilde" -> Selfish_0Greedy_Utilde(j, state)
      [] name = "Selfish_0Greedy_Ubar" -> Selfish_0Greedy_Ubar(j, state)

----------------------------------------------------------------------------
(* class State *)

\* State.__init__: the fields of a new object (mus, players are shared pointers,
\* kept in request)
State(S, Stilde, N, Ntilde, depth) ==
    [S |-> S, Stilde |-> Stilde, N |-> N, Ntilde |-> Ntilde,
     depth |-> depth,
     t |-> npsum(N),
     M |-> Min2(Rows(S), Cols(S)),
     K |-> Max2(Rows(S), Cols(S)),
     children |-> <<>>,
     probas |-> <<>>]

\* the three assertions of State.__init__
StateAsserts(S, Stilde, N, Ntilde, mus, players) ==
    /\ shape(S) = shape(Stilde) /\ shape(Stilde) = shape(N) /\ shape(N) = shape(Ntilde)
    /\ Len(players) = Min2(Rows(S), Cols(S))
    /\ Len(mus) = Max2(Rows(S), Cols(S))

copy(self) == State(self.S, self.Stilde, self.N, self.Ntilde, self.depth)

\* mutant of hash: the mode is ignored, Stilde and N alone are hashed
hash_reduced_always(self) == <<self.Stilde, self.N>>

\* mutant of hash: the test of the mode is inverted
hash_swapped(self) ==
    IF ~FULLHASH
    THEN <<self.S, self.N, self.Stilde, self.Ntilde, self.t, self.depth>>
    ELSE <<self.Stilde, self.N>>

\* State.__hash__: the hashed tuple stands for its hash value
hash(self) ==
    IF FULLHASH
    THEN <<self.S, self.N, self.Stilde, self.Ntilde, self.t, self.depth>>
    ELSE <<self.Stilde, self.N>>

\* for a in [S, Stilde, N, Ntilde]: tupleit1(a[j1]) == tupleit1(a[j2])
are_all_equal(self, j1, j2) ==
    /\ self.S[j1] = self.S[j2]
    /\ self.Stilde[j1] = self.Stilde[j2]
    /\ self.N[j1] = self.N[j2]
    /\ self.Ntilde[j1] = self.Ntilde[j2]

\* len(set(bad_line)) == len(bad_line)
only_different_values(bad_line) ==
    Cardinality({bad_line[k] : k \in DOMAIN bad_line}) = Cardinality(DOMAIN bad_line)

\* mutant of is_absorbing: bad_line is the line of S
is_absorbing_S(self) ==
    IF \E j \in DOMAIN self.N : \E k \in DOMAIN self.N[j] : self.N[j][k] < 1
    THEN FALSE
    ELSE \E j1 \in 0..(self.M - 1) : \E j2 \in (j1 + 1)..(self.M - 1) :
             are_all_equal(self, j1, j2) /\ only_different_values(self.S[j1])

\* mutant of is_absorbing: the test of np.min(self.N) is left out
is_absorbing_untested(self) ==
    \E j1 \in 0..(self.M - 1) : \E j2 \in (j1 + 1)..(self.M - 1) :
        are_all_equal(self, j1, j2) /\ only_different_values(self.Stilde[j1])

\* State.is_absorbing: the two loops return True at the first pair that fits
is_absorbing(self) ==
    IF \E j \in DOMAIN self.N : \E k \in DOMAIN self.N[j] : self.N[j][k] < 1
    THEN FALSE
    ELSE \E j1 \in 0..(self.M - 1) : \E j2 \in (j1 + 1)..(self.M - 1) :
             are_all_equal(self, j1, j2) /\ only_different_values(self.Stilde[j1])

----------------------------------------------------------------------------
(* State.all_deltas *)

all_decisions(self) ==
    [j \in 0..(Len(request.players) - 1) |-> player(request.players[j + 1], j, self)]

\* mutant of number_of_decisions: the first player's choices alone are counted
number_of_decisions_first(decs) == Len(decs[0])

number_of_decisions(decs) ==
    prodInt([j \in DOMAIN decs |-> Len(decs[j])], Cardinality(DOMAIN decs))

\* mutant of proba_of_this_coin_flip: mu and 1 - mu exchanged
proba_of_this_coin_flip_swapped(coin_flips) ==
    prod([k \in 0..(Min2(Cardinality(DOMAIN coin_flips), Len(request.mus)) - 1) |->
             IF coin_flips[k] = 0 THEN request.mus[k + 1]
             ELSE FracSub(One, request.mus[k + 1])],
         Min2(Cardinality(DOMAIN coin_flips), Len(request.mus)))

proba_of_this_coin_flip(coin_flips) ==
    prod([k \in 0..(Min2(Cardinality(DOMAIN coin_flips), Len(request.mus)) - 1) |->
             IF coin_flips[k] = 1 THEN request.mus[k + 1]
             ELSE FracSub(One, request.mus[k + 1])],
         Min2(Cardinality(DOMAIN coin_flips), Len(request.mus)))

\* mutant of collisions: an arm counts as collided from one player on
collisions_from_one(decisions, K) ==
    [k \in 0..(K - 1) |-> Cardinality({j \in DOMAIN decisions : decisions[j] = k}) >= 1]

\* mutant of collisions: an arm counts as collided from three players on
collisions_strict(decisions, K) ==
    [k \in 0..(K - 1) |-> Cardinality({j \in DOMAIN decisions : decisions[j] = k}) > 2]

\* collisions = [counter.get(k, 0) >= 2 for k in range(self.K)]
collisions(decisions, K) ==
    [k \in 0..(K - 1) |-> Cardinality({j \in DOMAIN decisions : decisions[j] = k}) >= 2]

\* s.S[j, Ij] in delta(s) raises IndexError: Ij is no column of the matrices
IndexError(s, decisions) ==
    \E j \in DOMAIN decisions : j >= Rows(s.S) \/ decisions[j] >= Cols(s.S)

\* mutant of delta: a transmission without collision counts as a success
\* whatever the arm paid
delta_always_rewarded(s, decisions, coin_flips) ==
    LET coll == collisions(decisions, s.K)
        chose(j, k) == j \in DOMAIN decisions /\ decisions[j] = k
    IN  [s EXCEPT
            !.t = @ + 1,
            !.depth = @ - 1,
            !.S = [j \in DOMAIN @ |-> [k \in DOMAIN @[j] |->
                      IF chose(j, k) THEN @[j][k] + coin_flips[k] ELSE @[j][k]]],
            !.N = [j \in DOMAIN @ |-> [k \in DOMAIN @[j] |->
                      IF chose(j, k) THEN @[j][k] + 1 ELSE @[j][k]]],
            !.Stilde = [j \in DOMAIN @ |-> [k \in DOMAIN @[j] |->
                      IF chose(j, k) /\ ~coll[k] THEN @[j][k] + 1 ELSE @[j][k]]],
            !.Ntilde = [j \in DOMAIN @ |-> [k \in DOMAIN @[j] |->
                      IF chose(j, k) /\ ~coll[k] THEN @[j][k] + 1 ELSE @[j][k]]]]

\* mutant of delta: the trial is counted in N only when there is no collision
delta_collision_uncounted(s, decisions, coin_flips) ==
    LET coll == collisions(decisions, s.K)
        chose(j, k) == j \in DOMAIN decisions /\ decisions[j] = k
    IN  [s EXCEPT
            !.t = @ + 1,
            !.depth = @ - 1,
            !.S = [j \in DOMAIN @ |-> [k \in DOMAIN @[j] |->
                      IF chose(j, k) THEN @[j][k] + coin_flips[k] ELSE @[j][k]]],
            !.N = [j \in DOMAIN @ |-> [k \in DOMAIN @[j] |->
                      IF chose(j, k) /\ ~coll[k] THEN @[j][k] + 1 ELSE @[j][k]]],
            !.Stilde = [j \in DOMAIN @ |-> [k \in DOMAIN @[j] |->
                      IF chose(j, k) /\ ~coll[k] THEN @[j][k] + coin_flips[k] ELSE @[j][k]]],
            !.Ntilde = [j \in DOMAIN @ |-> [k \in DOMAIN @[j] |->
                      IF chose(j, k) /\ ~coll[k] THEN @[j][k] + 1 ELSE @[j][k]]]]

\* mutant of delta: the reward is credited to Stilde with or without collision
delta_collision_credited(s, decisions, coin_flips) ==
    LET coll == collisions(decisions, s.K)
        chose(j, k) == j \in DOMAIN decisions /\ decisions[j] = k
    IN  [s EXCEPT
            !.t = @ + 1,
            !.depth = @ - 1,
            !.S = [j \in DOMAIN @ |-> [k \in DOMAIN @[j] |->
                      IF chose(j, k) THEN @[j][k] + coin_flips[k] ELSE @[j][k]]],
            !.N = [j \in DOMAIN @ |-> [k \in DOMAIN @[j] |->
                      IF chose(j, k) THEN @[j][k] + 1 ELSE @[j][k]]],
            !.Stilde = [j \in DOMAIN @ |-> [k \in DOMAIN @[j] |->
                      IF chose(j, k) THEN @[j][k] + coin_flips[k] ELSE @[j][k]]],
            !.Ntilde = [j \in DOMAIN @ |-> [k \in DOMAIN @[j] |->
                      IF chose(j, k) /\ ~coll[k] THEN @[j][k] + 1 ELSE @[j][k]]]]

\* mutant of delta: the realization is read at the index of the player, not
\* at the index of the arm the player chose
delta_flip_of_player(s, decisions, coin_flips) ==
    LET coll == collisions(decisions, s.K)
        chose(j, k) == j \in DOMAIN decisions /\ decisions[j] = k
    IN  [s EXCEPT
            !.t = @ + 1,
            !.depth = @ - 1,
            !.S = [j \in DOMAIN @ |-> [k \in DOMAIN @[j] |->
                      IF chose(j, k) THEN @[j][k] + coin_flips[j] ELSE @[j][k]]],
            !.N = [j \in DOMAIN @ |-> [k \in DOMAIN @[j] |->
                      IF chose(j, k) THEN @[j][k] + 1 ELSE @[j][k]]],
            !.Stilde = [j \in DOMAIN @ |-> [k \in DOMAIN @[j] |->
                      IF chose(j, k) /\ ~coll[k] THEN @[j][k] + coin_flips[j] ELSE @[j][k]]],
            !.Ntilde = [j \in DOMAIN @ |-> [k \in DOMAIN @[j] |->
                      IF chose(j, k) /\ ~coll[k] THEN @[j][k] + 1 ELSE @[j][k]]]]

\* the closure delta(s) of one (decisions, coin_flips) pair
delta(s, decisions, coin_flips) ==
    LET coll == collisions(decisions, s.K)
        chose(j, k) == j \in DOMAIN decisions /\ decisions[j] = k
    IN  [s EXCEPT
            !.t = @ + 1,
            !.depth = @ - 1,
            !.S = [j \in DOMAIN @ |-> [k \in DOMAIN @[j] |->
                      IF chose(j, k) THEN @[j][k] + coin_flips[k] ELSE @[j][k]]],
            !.N = [j \in DOMAIN @ |-> [k \in DOMAIN @[j] |->
                      IF chose(j, k) THEN @[j][k] + 1 ELSE @[j][k]]],
            !.Stilde = [j \in DOMAIN @ |-> [k \in DOMAIN @[j] |->
                      IF chose(j, k) /\ ~coll[k] THEN @[j][k] + coin_flips[k] ELSE @[j][k]]],
            !.Ntilde = [j \in DOMAIN @ |-> [k \in DOMAIN @[j] |->
                      IF chose(j, k) /\ ~coll[k] THEN @[j][k] + 1 ELSE @[j][k]]]]

\* mutant of all_deltas: of the tied choices of a player the first alone is kept
all_deltas_first(self) ==
    LET decs == [j \in 0..(Len(request.players) - 1) |-> <<all_decisions(self)[j][1]>>]
        nd == number_of_decisions(decs)
        D == product(decs, Len(request.players))
        C == product([k \in 0..(self.K - 1) |-> <<0, 1>>], self.K)
    IN  [i \in 1..(Len(D) * Len(C)) |->
            LET decisions == D[((i - 1) \div Len(C)) + 1]
                coin_flips == C[((i - 1) % Len(C)) + 1]
            IN  [decisions |-> decisions,
                 coin_flips |-> coin_flips,
                 proba |-> FracDivInt(proba_of_this_coin_flip(coin_flips), nd)]]

\* the generator, as the sequence of what it yields, in the order it yields
all_deltas(self) ==
    LET decs == all_decisions(self)
        nd == number_of_decisions(decs)
        D == product(decs, Len(request.players))
        C == product([k \in 0..(self.K - 1) |-> <<0, 1>>], self.K)
    IN  [i \in 1..(Len(D) * Len(C)) |->
            LET decisions == D[((i - 1) \div Len(C)) + 1]
                coin_flips == C[((i - 1) % Len(C)) + 1]
            IN  [decisions |-> decisions,
                 coin_flips |-> coin_flips,
                 proba |-> FracDivInt(proba_of_this_coin_flip(coin_flips), nd)]]

----------------------------------------------------------------------------
(* State.compute_one_depth *)

\* the order in which the loop of compute_one_depth sees what all_deltas yields
Enumerated(seq) == IF iteration = "product" THEN seq ELSE Reverse(seq)

\* mutant of uniq: the probability of a hash seen again replaces the stored one
RECURSIVE uniq_overwrite(_, _, _)
uniq_overwrite(entries, lo, hi) ==
    IF lo > hi THEN <<>>
    ELSE IF lo = hi THEN <<entries[lo]>>
    ELSE LET mid == (lo + hi) \div 2
             A == uniq_overwrite(entries, lo, mid)
             B == uniq_overwrite(entries, mid + 1, hi)
             hA == {A[i].h : i \in 1..Len(A)}
             hB == {B[i].h : i \in 1..Len(B)}
         IN  [i \in 1..Len(A) |->
                 IF A[i].h \in hB
                 THEN [A[i] EXCEPT !.proba =
                          B[CHOOSE j \in 1..Len(B) : B[j].h = A[i].h].proba]
                 ELSE A[i]]
             \o SelectSeq(B, LAMBDA b : b.h \notin hA)

\* The merging loop of compute_one_depth and of get_unique_leafs over the entries
\* lo..hi (hash h, object, proba), as the pair of dicts it builds: one entry per
\* hash in order of first occurrence, holding the first object seen and the sum
\* of the probabilities.  The loop is folded by halves (the fold of the first
\* half, then the entries of the second half merged into it), which gives the
\* same dicts since Fraction addition is exact and associative.
RECURSIVE uniq(_, _, _)
uniq(entries, lo, hi) ==
    IF lo > hi THEN <<>>
    ELSE IF lo = hi THEN <<entries[lo]>>
    ELSE LET mid == (lo + hi) \div 2
             A == uniq(entries, lo, mid)
             B == uniq(entries, mid + 1, hi)
             hA == {A[i].h : i \in 1..Len(A)}
             hB == {B[i].h : i \in 1..Len(B)}
         IN  [i \in 1..Len(A) |->
                 IF A[i].h \in hB
                 THEN [A[i] EXCEPT !.proba =
                          FracAdd(@, B[CHOOSE j \in 1..Len(B) : B[j].h = A[i].h].proba)]
                 ELSE A[i]]
             \o SelectSeq(B, LAMBDA b : b.h \notin hA)

\* the loop of compute_one_depth is left by the exception of some delta
loop_raises(self, yielded) ==
    \E i \in 1..Len(yielded) : IndexError(self, yielded[i].decisions)

compute_one_depth_raises(self) == loop_raises(self, all_deltas(self))

\* The arrays S, Stilde, N, Ntilde are objects that delta changes in place.
\* During the loop of compute_one_depth they live in cells: cells[1] holds the
\* four arrays of self, every np.copy adds a cell, and a State refers to its
\* arrays by the number of their cell.
arrays(s) == [S |-> s.S, Stilde |-> s.Stilde, N |-> s.N, Ntilde |-> s.Ntilde]

\* mutant of np_copy: the arrays themselves are handed on, not copies of them
np_copy_alias(cells, r) == [cells |-> Append(cells, cells[r]), at |-> r]

\* np.copy of the four arrays in State.__init__: the new State refers to new
\* arrays with the same entries
np_copy(cells, r) == [cells |-> Append(cells, cells[r]), at |-> Len(cells) + 1]

\* s as delta(s) leaves it, its arrays written back to their cell
written(mem, at, s) ==
    [cells |-> [mem.cells EXCEPT ![at] = arrays(s)],
     kids |-> Append(mem.kids, [at |-> at, t |-> s.t, depth |-> s.depth])]

\* child = delta(self.copy()) for the yielded pair y: copy() builds a State from
\* the arrays of self, c is what np.copy made of them
one_child(self, mem, c, y) ==
    written([mem EXCEPT !.cells = c.cells], c.at,
            delta(State(c.cells[c.at].S, c.cells[c.at].Stilde, c.cells[c.at].N,
                        c.cells[c.at].Ntilde, self.depth),
                  y.decisions, y.coin_flips))

\* one iteration of the loop, on the arrays of self in cells[1]
iteration_of(self, mem, y) == one_child(self, mem, np_copy(mem.cells, 1), y)

\* the cells and the children after the iterations lo..hi of the loop, which
\* start from mem; the iterations run one after the other, the range is split
\* in two only to keep the evaluation shallow (the test of Len(half.kids) has
\* the first half evaluated before the second starts)
RECURSIVE for_loop(_, _, _, _, _)
for_loop(self, yielded, mem, lo, hi) ==
    IF lo > hi THEN mem
    ELSE IF lo = hi THEN iteration_of(self, mem, yielded[lo])
    ELSE LET mid == (lo + hi) \div 2
             half == for_loop(self, yielded, mem, lo, mid)
         IN  IF Len(half.kids) = mid
             THEN for_loop(self, yielded, half, mid + 1, hi)
             ELSE half

\* before the loop: the arrays of self alone
before_loop(self) == [cells |-> <<arrays(self)>>, kids |-> <<>>]

\* the State object of a child with its arrays as the loop has left them
child_object(cell, kid) ==
    [State(cell.S, cell.Stilde, cell.N, cell.Ntilde, kid.depth) EXCEPT !.t = kid.t]

\* what the loop has produced: the raw transitions with their children, and
\* the arrays of self
after_loop(yielded, mem) ==
    [arrays |-> mem.cells[1],
     raw |-> [i \in 1..Len(yielded) |->
                 [decisions |-> yielded[i].decisions,
                  coin_flips |-> yielded[i].coin_flips,
                  proba |-> yielded[i].proba,
                  child |-> child_object(mem.cells[mem.kids[i].at], mem.kids[i])]]]

\* the loop up to the hash: child = delta(self.copy()) for each yielded pair
children_of(self, yielded) ==
    after_loop(yielded, for_loop(self, yielded, before_loop(self), 1, Len(yielded)))

\* h = hash(child) for each raw transition
hashed(raw) ==
    [i \in 1..Len(raw) |->
        [h |-> hash(raw[i].child), obj |-> raw[i].child, proba |-> raw[i].proba]]

\* the dicts uniq_children and uniq_probas after the loop over entries
uniq_dicts(entries) == uniq(entries, 1, Len(entries))

\* self.probas and self.children from the values of the two dicts
values(depth, loop, u) ==
    [depth |-> depth,
     arrays |-> loop.arrays,
     children |-> [i \in 1..Len(u) |-> u[i].obj],
     probas |-> [i \in 1..Len(u) |-> u[i].proba],
     raw |-> loop.raw]

merge_transitions(depth, loop) == values(depth, loop, uniq_dicts(hashed(loop.raw)))

\* the body of compute_one_depth once self.depth += 1 is done
one_depth_loop(self) ==
    merge_transitions(self.depth, children_of(self, Enumerated(all_deltas(self))))

compute_one_depth(self) == one_depth_loop([self EXCEPT !.depth = @ + 1])

----------------------------------------------------------------------------
(* Leaves: State.get_all_leafs, State.get_unique_leafs *)

\* mutant of get_all_leafs: the probabilities of the leafs below a child are
\* not multiplied by the probability of the child
RECURSIVE get_all_leafs_unweighted(_)
get_all_leafs_unweighted(id) ==
    LET self == heap[id]
    IN  IF self.depth <= 1
        THEN [probas |-> self.probas, leafs |-> self.children]
        ELSE LET sub == [i \in 1..Len(self.children) |->
                            get_all_leafs_unweighted(self.children[i])]
             IN  [probas |-> Concat([i \in 1..Len(self.children) |-> sub[i].probas],
                                    Len(self.children)),
                  leafs |-> Concat([i \in 1..Len(self.children) |-> sub[i].leafs],
                                   Len(self.children))]

RECURSIVE get_all_leafs(_)
get_all_leafs(id) ==
    LET self == heap[id]
    IN  IF self.depth <= 1
        THEN [probas |-> self.probas, leafs |-> self.children]
        ELSE LET sub == [i \in 1..Len(self.children) |-> get_all_leafs(self.children[i])]
             IN  [probas |-> Concat([i \in 1..Len(self.children) |->
                                        [x \in 1..Len(sub[i].probas) |->
                                            FracMul(self.probas[i], sub[i].probas[x])]],
                                    Len(self.children)),
                  leafs |-> Concat([i \in 1..Len(self.children) |-> sub[i].leafs],
                                   Len(self.children))]

\* h = hash(leaf) for each leaf of get_all_leafs
hashed_leafs(all) ==
    [i \in 1..Len(all.leafs) |->
        [h |-> hash(heap[all.leafs[i]]), obj |-> all.leafs[i], proba |-> all.probas[i]]]

leafs_values(u) ==
    [probas |-> [i \in 1..Len(u) |-> u[i].proba],
     leafs |-> [i \in 1..Len(u) |-> u[i].obj]]

get_unique_leafs(id) == leafs_values(uniq_dicts(hashed_leafs(get_all_leafs(id))))

----------------------------------------------------------------------------
(* The requests the model explores *)

F(n, d) == Fraction(n, d)

Selfish == {"Selfish_0Greedy_U", "Selfish_0Greedy_Utilde", "Selfish_0Greedy_Ubar"}

Policies == {"FixedArm", "UniformExploration"} \cup Selfish

\* players lists: one rule for all players (as test() builds them), and a mixed one
SinglePlayer == {<<p>> : p \in {"FixedArm", "UniformExploration", default_policy}}

TwoPlayers == {<<p, p>> : p \in Policies} \cup {<<"FixedArm", "UniformExploration">>}

Mus1 == <<F(1, 3)>>
MusSure == <<F(1, 1)>>
Mus2 == <<F(1, 2), F(1, 3)>>
MusEdge == <<F(0, 1), F(1, 1)>>
Mus3 == <<F(1, 2), F(1, 4), F(1, 1)>>

\* initial counters: all zero, or (two players, two arms) every arm tried once by
\* every player, each time in a collision and without reward
ZeroRoot(M, K) ==
    [S |-> zeros(M, K), Stilde |-> zeros(M, K), N |-> zeros(M, K), Ntilde |-> zeros(M, K)]

ones(rows, cols) == [j \in 0..(rows - 1) |-> [k \in 0..(cols - 1) |-> 1]]

CollidedRoot ==
    [S |-> zeros(2, 2), Stilde |-> zeros(2, 2), N |-> ones(2, 2), Ntilde |-> zeros(2, 2)]

\* two players with the same lines, every arm tried: S = Stilde = [[1, 0], [1, 0]],
\* N = Ntilde = [[2, 1], [2, 1]]
AbsorbingRoot ==
    [S |-> [j \in 0..1 |-> [k \in 0..1 |-> 1 - k]],
     Stilde |-> [j \in 0..1 |-> [k \in 0..1 |-> 1 - k]],
     N |-> [j \in 0..1 |-> [k \in 0..1 |-> 2 - k]],
     Ntilde |-> [j \in 0..1 |-> [k \in 0..1 |-> 2 - k]]]

\* the same lines while the second arm is still untried: N = Ntilde = [[1, 0], [1, 0]]
HalfTriedRoot ==
    [S |-> [j \in 0..1 |-> [k \in 0..1 |-> 1 - k]],
     Stilde |-> [j \in 0..1 |-> [k \in 0..1 |-> 1 - k]],
     N |-> [j \in 0..1 |-> [k \in 0..1 |-> 1 - k]],
     Ntilde |-> [j \in 0..1 |-> [k \in 0..1 |-> 1 - k]]]

\* three players, the last two with the same lines [2, 1, 0] of S and Stilde and
\* [4, 3, 1] of N and Ntilde, the first with other lines
AbsorbingRoot3 ==
    [S |-> [j \in 0..2 |-> [k \in 0..2 |-> IF j = 0 THEN 0 ELSE 2 - k]],
     Stilde |-> [j \in 0..2 |-> [k \in 0..2 |-> IF j = 0 THEN 0 ELSE 2 - k]],
     N |-> [j \in 0..2 |-> [k \in 0..2 |-> IF j = 0 THEN 1 ELSE IF k = 2 THEN 1 ELSE 4 - k]],
     Ntilde |-> [j \in 0..2 |-> [k \in 0..2 |-> IF j = 0 THEN 1 ELSE IF k = 2 THEN 1 ELSE 4 - k]]]

\* two players with the same lines after two collisions on each arm and one
\* round apart on each: S = [[1, 1], [1, 1]], Stilde = [[1, 0], [1, 0]],
\* N = [[2, 2], [2, 2]], Ntilde = [[1, 1], [1, 1]]
TiedRoot ==
    [S |-> ones(2, 2),
     Stilde |-> [j \in 0..1 |-> [k \in 0..1 |-> 1 - k]],
     N |-> [j \in 0..1 |-> [k \in 0..1 |-> 2]],
     Ntilde |-> ones(2, 2)]

\* players, arm means and initial counters (given: passed explicitly; otherwise
\* main builds the all-zero matrices itself)
Setup(players, mus, given, root) ==
    [players |-> players, mus |-> mus, given |-> given,
     S |-> root.S, Stilde |-> root.Stilde, N |-> root.N, Ntilde |-> root.Ntilde]

Setups ==
    {Setup(pl, mu, FALSE, ZeroRoot(1, Len(mu))) :
        pl \in SinglePlayer, mu \in {Mus1, MusSure, Mus2, MusEdge, Mus3}}
    \cup {Setup(pl, Mus2, FALSE, ZeroRoot(2, 2)) : pl \in TwoPlayers}
    \cup {Setup(<<p, p>>, Mus2, TRUE, CollidedRoot) : p \in Selfish}
    \cup {Setup(pl, MusEdge, FALSE, ZeroRoot(2, 2)) :
             pl \in {<<"FixedArm", "FixedArm">>, <<default_policy, default_policy>>}}
    \cup {Setup(<<"FixedArm", "FixedArm">>, Mus3, TRUE, ZeroRoot(2, 3))}
    \cup {Setup(<<p, p>>, Mus2, TRUE, AbsorbingRoot) : p \in {"FixedArm", default_policy}}
    \cup {Setup(<<"UniformExploration", "UniformExploration">>, Mus2, TRUE, HalfTriedRoot)}
    \cup {Setup(<<"FixedArm", "FixedArm", "FixedArm">>, Mus3, TRUE, AbsorbingRoot3)}

\* setups explored by a caller that builds the root State itself
DirectSetups ==
    {Setup(<<"UniformExploration">>, Mus2, TRUE, ZeroRoot(1, 2)),
     Setup(<<default_policy, default_policy>>, Mus2, TRUE, ZeroRoot(2, 2))}

Request(entry, depth, setup) ==
    [entry |-> entry, depth |-> depth, players |-> setup.players, mus |-> setup.mus,
     given |-> setup.given,
     S |-> setup.S, Stilde |-> setup.Stilde, N |-> setup.N, Ntilde |-> setup.Ntilde]

\* requests within the supported bounds, and below depth 0
GoodRequests ==
    {Request("main", d, s) : d \in (-1)..MaxDepth, s \in Setups}
    \cup {Request("direct", d, s) : d \in (-1)..MaxDepth, s \in DirectSetups}

\* requests that main must refuse: no player, more players than arms, too many
\* arms, too deep
BadRequests ==
    {Request("main", 1, Setup(<<>>, Mus1, FALSE, ZeroRoot(1, 1))),
     Request("main", 1, Setup(<<"FixedArm", "FixedArm">>, Mus1, FALSE, ZeroRoot(1, 1))),
     Request("main", 1, Setup(<<"FixedArm">>, [k \in 1..(MAXARMS + 1) |-> F(1, 2)], FALSE,
                              ZeroRoot(1, 1)))}
    \cup {Request("main", MAXDEPTH + 1, s) : s \in DirectSetups}

\* initial matrices with more rows than columns (M = min, K = max of the shape)
TallSetups ==
    {Setup(pl, Mus2, TRUE, ZeroRoot(2, 1)) : pl \in SinglePlayer}
    \cup {Setup(<<p, p>>, Mus3, TRUE, ZeroRoot(3, 2)) :
             p \in {"FixedArm", "UniformExploration", default_policy}}

\* initial matrices that the assertions of State.__init__ refuse: shapes that
\* differ, a players list not of size M, a mus list not of size K
MismatchedSetups ==
    {Setup(<<"FixedArm">>, Mus2, TRUE, [ZeroRoot(1, 2) EXCEPT !.N = zeros(2, 2)]),
     Setup(<<"FixedArm", "FixedArm">>, Mus2, TRUE, ZeroRoot(1, 2)),
     Setup(<<"FixedArm">>, Mus3, TRUE, ZeroRoot(1, 2))}

ShapeRequests ==
    {Request("main", d, s) : d \in 1..MaxDepth, s \in TallSetups \cup MismatchedSetups}

\* one round of the default policy from TiedRoot
TiedRequests ==
    {Request("main", 1, Setup(<<default_policy, default_policy>>, Mus2, TRUE, TiedRoot))}

Requests == GoodRequests \cup BadRequests \cup ShapeRequests \cup TiedRequests

----------------------------------------------------------------------------
(* The state machine *)

NoTrace == [node |-> 0, before |-> <<>>, raw |-> <<>>]
NoResult == [probas |-> <<>>, leafs |-> <<>>, absorbing |-> <<>>, absorbed |-> <<>>]

Init ==
    /\ pc = "start"
    /\ request \in Requests
    /\ FULLHASH \in BOOLEAN
    /\ iteration = "product"
    /\ heap = <<>>
    /\ stack = <<>>
    /\ expanded = {}
    /\ trace = NoTrace
    /\ result = NoResult
    /\ run = 1
    /\ first = <<>>

\* the call root.explore_from_node_to_depth(depth=depth) on a new root
Start(S, Stilde, N, Ntilde) ==
    IF StateAsserts(S, Stilde, N, Ntilde, request.mus, request.players)
    THEN /\ heap' = <<State(S, Stilde, N, Ntilde, 0)>>
         /\ stack' = <<[node |-> 1, depth |-> request.depth]>>
         /\ pc' = "exploring"
    ELSE /\ pc' = "error"
         /\ UNCHANGED <<heap, stack>>

\* main(depth, players, mus, S, Stilde, N, Ntilde), up to the call of
\* explore_from_node_to_depth
main ==
    /\ pc = "start"
    /\ request.entry = "main"
    /\ LET M == Len(request.players)
           K == Len(request.mus)
       IN  IF ~(1 <= M /\ M <= K /\ K <= MAXARMS)
              \/ ~(0 <= request.depth /\ request.depth <= MAXDEPTH)
           THEN /\ pc' = "error"
                /\ UNCHANGED <<heap, stack>>
           ELSE IF request.given
                THEN Start(request.S, request.Stilde, request.N, request.Ntilde)
                ELSE Start(zeros(M, K), zeros(M, K), zeros(M, K), zeros(M, K))
    /\ UNCHANGED <<request, FULLHASH, iteration, expanded, trace, result, run, first>>

\* a caller that builds the root State itself and explores from it
direct ==
    /\ pc = "start"
    /\ request.entry = "direct"
    /\ Start(request.S, request.Stilde, request.N, request.Ntilde)
    /\ UNCHANGED <<request, FULLHASH, iteration, expanded, trace, result, run, first>>

\* mutant of nothing_to_explore: the test of depth is left out
nothing_to_explore_never(depth) == FALSE

\* mutant of nothing_to_explore: the test is off by one
nothing_to_explore_at_one(depth) == depth = 1

\* if depth == 0: return
nothing_to_explore(depth) == depth = 0

\* mutant of expand: self.depth = depth is left out
expand_depth_kept(id, depth, c) ==
    /\ heap' = [heap EXCEPT ![id] =
                   [heap[id] EXCEPT !.S = c.arrays.S,
                                    !.Stilde = c.arrays.Stilde,
                                    !.N = c.arrays.N,
                                    !.Ntilde = c.arrays.Ntilde,
                                    !.depth = @ + 1,
                                    !.children = [i \in 1..Len(c.children) |-> Len(heap) + i],
                                    !.probas = c.probas]]
               \o c.children
    /\ stack' = (IF depth > 1
                 THEN [i \in 1..Len(c.children) |->
                          [node |-> Len(heap) + i, depth |-> depth - 1]]
                 ELSE <<>>) \o Tail(stack)
    /\ expanded' = expanded \cup {id}
    /\ trace' = [node |-> id, before |-> heap[id], raw |-> c.raw]

\* explore_from_node_to_depth past its test of depth: c is what
\* self.compute_one_depth() computed; the children become new objects
expand(id, depth, c) ==
    /\ heap' = [heap EXCEPT ![id] =
                   [heap[id] EXCEPT !.S = c.arrays.S,
                                    !.Stilde = c.arrays.Stilde,
                                    !.N = c.arrays.N,
                                    !.Ntilde = c.arrays.Ntilde,
                                    !.depth = depth,
                                    !.children = [i \in 1..Len(c.children) |-> Len(heap) + i],
                                    !.probas = c.probas]]
               \o c.children
    /\ stack' = (IF depth > 1
                 THEN [i \in 1..Len(c.children) |->
                          [node |-> Len(heap) + i, depth |-> depth - 1]]
                 ELSE <<>>) \o Tail(stack)
    /\ expanded' = expanded \cup {id}
    /\ trace' = [node |-> id, before |-> heap[id], raw |-> c.raw]

\* one call self.explore_from_node_to_depth(depth), the top of the pending calls;
\* its recursive calls become pending, in the order of self.children
explore_from_node_to_depth ==
    /\ pc = "exploring"
    /\ stack # <<>>
    /\ IF nothing_to_explore(Head(stack).depth)
       THEN /\ stack' = Tail(stack)
            /\ UNCHANGED <<pc, heap, expanded, trace>>
       ELSE IF compute_one_depth_raises(heap[Head(stack).node])
       THEN /\ pc' = "error"
            /\ heap' = [heap EXCEPT ![Head(stack).node].depth = @ + 1]
            /\ UNCHANGED <<stack, expanded, trace>>
       ELSE /\ expand(Head(stack).node, Head(stack).depth,
                      compute_one_depth(heap[Head(stack).node]))
            /\ UNCHANGED pc
    /\ UNCHANGED <<request, FULLHASH, iteration, result, run, first>>

\* leaf.is_absorbing() for each of the unique leafs
with_absorbing(u) ==
    [probas |-> u.probas,
     leafs |-> u.leafs,
     absorbing |-> [i \in 1..Len(u.leafs) |-> is_absorbing(heap[u.leafs[i]])],
     absorbed |-> <<>>]

\* root.get_unique_leafs() once the exploration has returned, and the loop
\* over the leafs that follows it
unique_leafs ==
    /\ pc = "exploring"
    /\ stack = <<>>
    /\ result' = with_absorbing(get_unique_leafs(1))
    /\ pc' = "done"
    /\ UNCHANGED <<request, FULLHASH, iteration, heap, stack, expanded, trace, run, first>>

\* mutant of absorbing_loop: the test of leaf.is_absorbing() is left out
RECURSIVE absorbing_loop_untested(_, _, _)
absorbing_loop_untested(u, lo, hi) ==
    IF lo > hi THEN [nb_absorbing |-> 0, bad_proba |-> Zero]
    ELSE IF lo = hi
    THEN [nb_absorbing |-> 1, bad_proba |-> u.probas[lo]]
    ELSE LET mid == (lo + hi) \div 2
             A == absorbing_loop_untested(u, lo, mid)
             B == absorbing_loop_untested(u, mid + 1, hi)
         IN  [nb_absorbing |-> A.nb_absorbing + B.nb_absorbing,
              bad_proba |-> FracAdd(A.bad_proba, B.bad_proba)]

\* the loop of proba_reaching_absorbing_state over the leafs lo..hi of u:
\* nb_absorbing and bad_proba, both 0 before the loop, grow at every leaf that
\* is_absorbing() (folded by halves, the additions being exact)
RECURSIVE absorbing_loop(_, _, _)
absorbing_loop(u, lo, hi) ==
    IF lo > hi THEN [nb_absorbing |-> 0, bad_proba |-> Zero]
    ELSE IF lo = hi
    THEN IF is_absorbing(heap[u.leafs[lo]])
         THEN [nb_absorbing |-> 1, bad_proba |-> u.probas[lo]]
         ELSE [nb_absorbing |-> 0, bad_proba |-> Zero]
    ELSE LET mid == (lo + hi) \div 2
             A == absorbing_loop(u, lo, mid)
             B == absorbing_loop(u, mid + 1, hi)
         IN  [nb_absorbing |-> A.nb_absorbing + B.nb_absorbing,
              bad_proba |-> FracAdd(A.bad_proba, B.bad_proba)]

absorbing_of(u) == absorbing_loop(u, 1, Len(u.leafs))

\* root.proba_reaching_absorbing_state() on the explored root, as test() calls
\* it once main has returned: the pair (nb_absorbing, bad_proba) it returns
proba_reaching_absorbing_state ==
    /\ pc = "done"
    /\ result.absorbed = <<>>
    /\ result' = [result EXCEPT !.absorbed = <<absorbing_of(get_unique_leafs(1))>>]
    /\ UNCHANGED <<pc, request, FULLHASH, iteration, heap, stack, expanded, trace, run, first>>

\* what an exploration produced: per level the multiset of (key, probability)
\* pairs of the nodes of that level, and the unique leaves
RECURSIVE level(_)
level(i) ==
    IF i = 0 THEN <<1>>
    ELSE LET up == level(i - 1)
         IN  Concat([x \in 1..Len(up) |-> heap[up[x]].children], Len(up))

LevelPairs(i) ==
    LET up == level(i - 1)
    IN  Concat([x \in 1..Len(up) |->
                   [c \in 1..Len(heap[up[x]].children) |->
                       <<hash(heap[heap[up[x]].children[c]]), heap[up[x]].probas[c]>>]],
               Len(up))

BagOf(seq) == [x \in Range(seq) |-> Cardinality({i \in DOMAIN seq : seq[i] = x})]

Summary ==
    [FULLHASH |-> FULLHASH,
     iteration |-> iteration,
     levels |-> [i \in 1..Max2(request.depth, 1) |-> BagOf(LevelPairs(i))],
     leafs |-> BagOf([i \in 1..Len(result.leafs) |->
                         <<hash(heap[result.leafs[i]]), result.probas[i]>>]),
     nleafs |-> Len(result.leafs),
     total |-> sum(result.probas)]

\* the same request served once more, from a root built from the same counters
Restart ==
    /\ pc = "done"
    /\ run = 1
    /\ first' = <<Summary>>
    /\ run' = 2
    /\ pc' = "start"
    /\ heap' = <<>>
    /\ stack' = <<>>
    /\ expanded' = {}
    /\ trace' = NoTrace
    /\ result' = NoResult
    /\ UNCHANGED request

\* ... by a process started with the other hash mode
again ==
    /\ Restart
    /\ FULLHASH' = ~FULLHASH
    /\ UNCHANGED iteration

\* ... in the same hash mode, the raw transitions being consumed in another order
reordered ==
    /\ Restart
    /\ iteration' = "reversed"
    /\ UNCHANGED FULLHASH

Next ==
    \/ main
    \/ direct
    \/ explore_from_node_to_depth
    \/ unique_leafs
    \/ proba_reaching_absorbing_state
    \/ again

Spec == Init /\ [][Next]_vars

\* the caller calls explore_from_node_to_depth(depth) once more on the root that
\* the first call has explored, with the same depth
second_call ==
    /\ pc = "done"
    /\ run = 1
    /\ first' = <<Summary>>
    /\ run' = 2
    /\ pc' = "exploring"
    /\ stack' = <<[node |-> 1, depth |-> request.depth]>>
    /\ expanded' = {}
    /\ trace' = NoTrace
    /\ result' = NoResult
    /\ UNCHANGED <<request, FULLHASH, iteration, heap>>

NextTwice == main \/ direct \/ explore_from_node_to_depth \/ unique_leafs \/ second_call

SpecTwice == Init /\ [][NextTwice]_vars

NextOrder == main \/ direct \/ explore_from_node_to_depth \/ unique_leafs \/ reordered

SpecOrder == Init /\ [][NextOrder]_vars

----------------------------------------------------------------------------
(* Properties *)

Nodes == 1..Len(heap)

\* the candidate arms of player j in the State of the last expansion
Candidates(j) == Range(player(request.players[j + 1], j, trace.before))

Players == 0..(Len(request.players) - 1)
Arms == 0..(Len(request.mus) - 1)

\* the raw transitions of the last expansion whose decision vector is d
RawOf(d) == SelectSeq(trace.raw, LAMBDA r : r.decisions = d)

\* C1: the probas of every State on which compute_one_depth has run sum to
\* exactly 1, in full-hash and in reduced-hash mode.
C1_ProbasSumToOne ==
    \A id \in expanded : sum(heap[id].probas) = One

\* an expanded two-player State with merged children, reduced-hash mode, whose
\* children have been expanded too
C1_Witness ==
    /\ ~FULLHASH
    /\ \E id \in expanded :
          /\ heap[id].M = 2
          /\ Len(heap[id].probas) >= 10
          /\ \E c \in expanded : c \in Range(heap[id].children)

\* C2: for 0 <= d <= 8 the probabilities returned by get_unique_leafs() after
\* explore_from_node_to_depth(d) sum to exactly 1.
C2_LeafConservation ==
    (pc = "done" /\ 0 <= request.depth /\ request.depth <= MAXDEPTH)
        => sum(result.probas) = One

\* C3: in every State of an explored tree t equals the sum of the entries of N.
C3_TimeIsSumOfN ==
    \A id \in Nodes : heap[id].t = npsum(heap[id].N)

\* C4: a raw transition changes the counters of the parent exactly so: for each
\* player j with chosen arm Ij, S[j][Ij] grows by the realization of Ij and
\* N[j][Ij] by 1; Stilde[j][Ij] and Ntilde[j][Ij] grow likewise iff fewer than
\* two players chose Ij; every other entry is unchanged.
C4_DeltaCounters ==
    trace.node > 0 =>
        \A i \in 1..Len(trace.raw) :
            LET r == trace.raw[i]
                parent == trace.before
                collided(k) == Cardinality({j \in Players : r.decisions[j] = k}) >= 2
                chose(j, k) == j \in Players /\ r.decisions[j] = k
                hit(j, k) == IF chose(j, k) THEN 1 ELSE 0
                free(j, k) == IF chose(j, k) /\ ~collided(k) THEN 1 ELSE 0
            IN  \A j \in DOMAIN parent.S : \A k \in DOMAIN parent.S[j] :
                    /\ r.child.S[j][k] = parent.S[j][k] + hit(j, k) * r.coin_flips[k]
                    /\ r.child.N[j][k] = parent.N[j][k] + hit(j, k)
                    /\ r.child.Stilde[j][k] = parent.Stilde[j][k] + free(j, k) * r.coin_flips[k]
                    /\ r.child.Ntilde[j][k] = parent.Ntilde[j][k] + free(j, k)

\* a raw transition in which two players collide on an arm that pays, and one
\* in which two players play different arms that both pay
C4_Witness ==
    /\ trace.node > 0
    /\ Len(request.players) = 2
    /\ \E i \in 1..Len(trace.raw) :
          /\ trace.raw[i].decisions[0] = trace.raw[i].decisions[1]
          /\ trace.raw[i].coin_flips[trace.raw[i].decisions[0]] = 1
    /\ \E i \in 1..Len(trace.raw) :
          /\ trace.raw[i].decisions[0] # trace.raw[i].decisions[1]
          /\ trace.raw[i].coin_flips[0] = 1 /\ trace.raw[i].coin_flips[1] = 1

\* C5: all_deltas yields exactly one raw transition for every element of
\* (product of the players' candidate sets) x (the 2^K realizations); with two
\* players exploring two arms uniformly that is 16 raw transitions, merged into
\* fewer children.
C5_AllDeltasComplete ==
    trace.node > 0 =>
        LET pairs == {d \in [Players -> Arms] : \A j \in Players : d[j] \in Candidates(j)}
                         \X [Arms -> {0, 1}]
            seen(i) == <<trace.raw[i].decisions, trace.raw[i].coin_flips>>
        IN  /\ {seen(i) : i \in 1..Len(trace.raw)} = pairs
            /\ Len(trace.raw) = Cardinality(pairs)
            /\ Len(trace.raw) = prodInt([j \in Players |-> Cardinality(Candidates(j))],
                                        Len(request.players))
                                * (2 ^ Len(request.mus))
            /\ request.players = <<"UniformExploration", "UniformExploration">>
                   => /\ Len(trace.raw) = 16
                      /\ Len(heap[trace.node].children) < 16

\* two players exploring two arms uniformly have been expanded
C5_Witness ==
    /\ trace.node > 0
    /\ request.players = <<"UniformExploration", "UniformExploration">>
    /\ Len(trace.raw) = 16
    /\ Len(heap[trace.node].children) = 12

\* C6: the probability of a raw transition is the product over the arms of
\* (mu_k if realization[k] = 1 else 1 - mu_k) divided by the number of joint
\* decision vectors, and every joint decision vector carries the total weight
\* 1 / (number of joint decision vectors).
C6_TransitionProba ==
    trace.node > 0 =>
        LET nd == prodInt([j \in Players |-> Cardinality(Candidates(j))],
                          Len(request.players))
        IN  \A i \in 1..Len(trace.raw) :
                LET r == trace.raw[i]
                    num == prodInt([k \in Arms |->
                                       IF r.coin_flips[k] = 1 THEN request.mus[k + 1][1]
                                       ELSE request.mus[k + 1][2] - request.mus[k + 1][1]],
                                   Len(request.mus))
                    den == prodInt([k \in Arms |-> request.mus[k + 1][2]], Len(request.mus))
                           * nd
                    same == RawOf(r.decisions)
                IN  /\ r.proba[1] * den = num * r.proba[2]
                    /\ r.proba[2] > 0
                    /\ sum([x \in 1..Len(same) |-> same[x].proba]) = <<1, nd>>

\* four joint decisions over two arms whose means are neither 0 nor 1
C6_Witness ==
    /\ trace.node > 0
    /\ request.mus = Mus2
    /\ Len(request.players) = 2
    /\ Cardinality(Candidates(0)) = 2 /\ Cardinality(Candidates(1)) = 2
    /\ \E i \in 1..Len(trace.raw) : trace.raw[i].proba = <<1, 12>>

\* C7: after compute_one_depth children and probas have the same length, no
\* two children have the same key, and probas[i] is the sum of the
\* probabilities of the raw transitions whose State has the key of children[i];
\* the total probability is the same after merging as before.
C7_Merged ==
    trace.node > 0 =>
        LET self == heap[trace.node]
            child(i) == heap[self.children[i]]
            rawp == [x \in 1..Len(trace.raw) |-> trace.raw[x].proba]
            into(i) == SelectSeq(trace.raw, LAMBDA r : hash(r.child) = hash(child(i)))
        IN  /\ Len(self.children) = Len(self.probas)
            /\ \A i, i2 \in 1..Len(self.children) :
                   i # i2 => hash(child(i)) # hash(child(i2))
            /\ \A x \in 1..Len(trace.raw) :
                   \E i \in 1..Len(self.children) : hash(trace.raw[x].child) = hash(child(i))
            /\ \A i \in 1..Len(self.children) :
                   self.probas[i] = sum([x \in 1..Len(into(i)) |-> into(i)[x].proba])
            /\ sum(self.probas) = sum(rawp)

\* an expansion in reduced-hash mode in which several raw transitions were
\* merged into one child
C7_Witness ==
    /\ trace.node > 0
    /\ ~FULLHASH
    /\ Len(heap[trace.node].children) >= 2
    /\ Len(heap[trace.node].children) < Len(trace.raw)
    /\ \E i \in 1..Len(heap[trace.node].probas) :
          \A x \in 1..Len(trace.raw) : trace.raw[x].proba # heap[trace.node].probas[i]

\* the repeated exploration produced what the first one produced: the same
\* multiset of (key, probability) pairs at every level, the same unique leaves
SameAsFirst ==
    /\ first[1].levels = Summary.levels
    /\ first[1].leafs = Summary.leafs

\* rules that read Stilde and N only
ReadsStildeN == {"FixedArm", "UniformExploration", "Selfish_0Greedy_Utilde"}

C9_ReducedNoMoreLeaves ==
    (pc = "done" /\ run = 2 /\ request.depth >= 1 /\ first[1].FULLHASH # FULLHASH) =>
        LET reduced == IF FULLHASH
                       THEN [n |-> first[1].nleafs, total |-> first[1].total]
                       ELSE [n |-> Len(result.leafs), total |-> sum(result.probas)]
            full == IF FULLHASH THEN Len(result.leafs) ELSE first[1].nleafs
        IN  /\ reduced.n <= full
            /\ reduced.total = One

\* both modes explored to depth 2 with strictly fewer leaves in reduced mode
C9_Witness ==
    /\ pc = "done" /\ run = 2 /\ request.depth >= 2
    /\ ~FULLHASH /\ first[1].FULLHASH
    /\ Len(request.players) = 2
    /\ Len(result.leafs) >= 2
    /\ Len(result.leafs) < first[1].nleafs

BoundsViolated ==
    LET M == Len(request.players)
        K == Len(request.mus)
    IN  \/ ~(1 <= M /\ M <= K /\ K <= MAXARMS)
        \/ ~(0 <= request.depth /\ request.depth <= MAXDEPTH)

\* C10: a request that violates 1 <= M <= K <= 10 or 0 <= d <= 8 ends in an
\* error before any State is expanded, through main() and through a direct
\* call of explore_from_node_to_depth alike.
C10_FailFast ==
    BoundsViolated => (expanded = {} /\ pc # "done")

\* the nodes i levels below the root that have not been expanded
Unexpanded(i) == {x \in Range(level(i)) : x \notin expanded}

\* C11: whatever initial matrices (of any shape, tall ones included), players,
\* mus and depth d main is given, either an error is raised before any node is
\* expanded, or the exploration completes with every node at a level below d
\* expanded; no error is raised once some node has been expanded.
C11_AllOrNothing ==
    /\ pc = "error" =>
          /\ expanded = {}
          /\ \A id \in Nodes : heap[id].children = <<>> /\ heap[id].probas = <<>>
    /\ (pc = "done" /\ request.entry = "main") =>
          \A i \in 0..(request.depth - 1) : level(i) # <<>> /\ Unexpanded(i) = {}

\* main was given matrices with more rows than columns and a depth of 2 or
\* more, and the error came out of the root's compute_one_depth
C11_Witness ==
    /\ pc = "error"
    /\ request.entry = "main"
    /\ Rows(request.S) > Cols(request.S)
    /\ request.depth >= 2
    /\ Len(heap) = 1 /\ heap[1].depth = 1

\* the States built by the last step: the root, and the children that the
\* last compute_one_depth has produced (every node of the tree is one of these
\* in the step that builds it)
Built ==
    (IF heap = <<>> THEN {} ELSE {heap[1]})
        \cup {trace.raw[i].child : i \in 1..Len(trace.raw)}

\* every entry of N is at least 1
EveryArmTried(s) == \A j \in DOMAIN s.N : \A k \in DOMAIN s.N[j] : s.N[j][k] >= 1

\* players j1 < j2 have equal lines in S, Stilde, N and Ntilde, and the values
\* of that line of Stilde are pairwise distinct
TwinPlayers(s, j1, j2) ==
    /\ j1 < j2
    /\ \A k \in DOMAIN s.S[j1] :
          /\ s.S[j1][k] = s.S[j2][k] /\ s.Stilde[j1][k] = s.Stilde[j2][k]
          /\ s.N[j1][k] = s.N[j2][k] /\ s.Ntilde[j1][k] = s.Ntilde[j2][k]
    /\ \A k1, k2 \in DOMAIN s.Stilde[j1] :
          k1 # k2 => s.Stilde[j1][k1] # s.Stilde[j1][k2]

\* C12: is_absorbing() returns true for a State if and only if every entry of N
\* is at least 1 and there are two distinct players j1 < j2 whose lines of S,
\* Stilde, N and Ntilde are all equal and whose line of Stilde has pairwise
\* distinct values.
C12_AbsorbingIff ==
    /\ \A s \in Built :
          is_absorbing(s) <=>
              /\ EveryArmTried(s)
              /\ \E j1, j2 \in Players : TwinPlayers(s, j1, j2)
    /\ \A i \in 1..Len(result.leafs) :
          result.absorbing[i] <=>
              /\ EveryArmTried(heap[result.leafs[i]])
              /\ \E j1, j2 \in Players : TwinPlayers(heap[result.leafs[i]], j1, j2)

\* the unique leaves at depth 2 hold a flagged leaf, and an unflagged one where
\* every arm was tried and two players have equal lines, but with equal
\* values in the line of Stilde
C12_Witness ==
    /\ pc = "done" /\ request.depth = 2
    /\ \E i \in 1..Len(result.leafs) : result.absorbing[i]
    /\ \E i \in 1..Len(result.leafs) :
          /\ ~result.absorbing[i]
          /\ EveryArmTried(heap[result.leafs[i]])
          /\ are_all_equal(heap[result.leafs[i]], 0, 1)
          /\ heap[result.leafs[i]].S[0][0] # heap[result.leafs[i]].S[0][1]

ZeroRooted == request.N = zeros(Rows(request.N), Cols(request.N))

\* C13: no State one of whose entries of N is 0 is flagged absorbing; in a tree
\* explored from the all-zero root no node at a level below K is flagged.
C13_UntriedNeverAbsorbing ==
    /\ \A s \in Built :
          (\E j \in DOMAIN s.N : \E k \in DOMAIN s.N[j] : s.N[j][k] = 0)
              => ~is_absorbing(s)
    /\ \A i \in 1..Len(result.leafs) :
          (\E j \in DOMAIN request.N : \E k \in DOMAIN request.N[j] :
               heap[result.leafs[i]].N[j][k] = 0)
              => ~result.absorbing[i]
    /\ (ZeroRooted /\ pc = "done" /\ expanded # {}) =>
          \A i \in 0..(Len(request.mus) - 1) :
              i <= request.depth => \A x \in Range(level(i)) : ~is_absorbing(heap[x])

\* a unique leaf whose two players have equal lines with distinct values of
\* Stilde, not flagged since the second arm is untried
C13_Witness ==
    /\ pc = "done" /\ request.depth = 1
    /\ Len(request.players) = 2
    /\ \E i \in 1..Len(result.leafs) :
          /\ ~result.absorbing[i]
          /\ are_all_equal(heap[result.leafs[i]], 0, 1)
          /\ only_different_values(heap[result.leafs[i]].Stilde[0])
          /\ heap[result.leafs[i]].N[0][1] = 0

\* entrywise Stilde <= S, Ntilde <= N and Stilde <= N
CountersOrdered(s) ==
    \A j \in DOMAIN s.N : \A k \in DOMAIN s.N[j] :
        /\ s.Stilde[j][k] <= s.S[j][k]
        /\ s.Ntilde[j][k] <= s.N[j][k]
        /\ s.Stilde[j][k] <= s.N[j][k]

\* C14: in every State reached by exploration from a root whose counters
\* satisfy entrywise Stilde <= S, Ntilde <= N and Stilde <= N (the all-zero
\* root among them), the counters satisfy them too, in both hash modes.
C14_CountersOrdered ==
    (heap # <<>> /\ CountersOrdered(request)) =>
        \A s \in Built : CountersOrdered(s)

\* reduced-hash mode, two levels down: a State where collisions kept Ntilde
\* strictly below N, and one where a success made Stilde = S > 0
C14_Witness ==
    /\ ~FULLHASH /\ pc = "done" /\ request.depth = 2
    /\ CountersOrdered(request)
    /\ \E i \in 1..Len(result.leafs) :
          /\ heap[result.leafs[i]].Ntilde[0][0] < heap[result.leafs[i]].N[0][0]
          /\ heap[result.leafs[i]].Stilde[0][0] < heap[result.leafs[i]].N[0][0]
    /\ \E i \in 1..Len(result.leafs) :
          /\ heap[result.leafs[i]].Stilde[0][0] = heap[result.leafs[i]].S[0][0]
          /\ heap[result.leafs[i]].Stilde[0][0] > 0

\* for the nodes of level(i), in the same order, the product of the edge
\* probabilities along the path from the root
RECURSIVE PathProbas(_)
PathProbas(i) ==
    IF i = 0 THEN <<One>>
    ELSE LET up == level(i - 1)
             pp == PathProbas(i - 1)
         IN  Concat([x \in 1..Len(up) |->
                        [c \in 1..Len(heap[up[x]].children) |->
                            FracMul(pp[x], heap[up[x]].probas[c])]],
                    Len(up))

\* the sum of the path probabilities pp of the nodes among ids whose key is h
KeyProba(ids, pp, h) ==
    LET sel == SelectSeq([x \in 1..Len(ids) |-> <<hash(heap[ids[x]]), pp[x]>>],
                         LAMBDA e : e[1] = h)
    IN  sum([x \in 1..Len(sel) |-> sel[x][2]])

\* the unique leafs are the keys of the nodes ids, once each, every leaf with
\* depth 0 and with the summed path probabilities pp of its key
LeafsOfLevel(ids, pp) ==
    /\ {hash(heap[result.leafs[i]]) : i \in 1..Len(result.leafs)}
           = {hash(heap[ids[x]]) : x \in 1..Len(ids)}
    /\ \A i, j \in 1..Len(result.leafs) :
          i # j => hash(heap[result.leafs[i]]) # hash(heap[result.leafs[j]])
    /\ \A i \in 1..Len(result.leafs) :
          /\ heap[result.leafs[i]].depth = 0
          /\ result.probas[i] = KeyProba(ids, pp, hash(heap[result.leafs[i]]))

\* C15: after explore_from_node_to_depth(d), d >= 1, get_unique_leafs() returns
\* one entry per distinct key among the nodes d levels below the root, every
\* returned leaf has depth 0, and its probability is the sum, over the paths
\* from the root to the nodes with that key, of the product of the edge
\* probabilities along the path.
C15_UniqueLeafs ==
    (pc = "done" /\ request.depth >= 1) =>
        LeafsOfLevel(level(request.depth), PathProbas(request.depth))

\* a tree of depth 2 in which several paths end in nodes with the same key
C15_Witness ==
    /\ pc = "done" /\ request.depth = 2
    /\ Len(result.leafs) >= 2
    /\ Len(level(2)) > Len(result.leafs)
    /\ \E i \in 1..Len(result.leafs) : result.probas[i] \notin {Zero, One}

\* one player, one arm, depth 1, from the all-zero root
ScenarioA ==
    /\ pc = "done" /\ request.depth = 1
    /\ Len(request.players) = 1 /\ Len(request.mus) = 1
    /\ ZeroRooted

\* C16: for M = 1, K = 1, depth 1 and arm mean mu_1 the exploration from the
\* all-zero root yields exactly two unique leaves, S = [[1]], N = [[1]] with
\* probability mu_1 and S = [[0]], N = [[1]] with probability 1 - mu_1, in
\* both hash modes.
C16_ScenarioA ==
    ScenarioA =>
        /\ Len(result.leafs) = 2
        /\ \E i \in 1..2 :
              /\ heap[result.leafs[i]].S = ones(1, 1)
              /\ heap[result.leafs[i]].N = ones(1, 1)
              /\ result.probas[i] = request.mus[1]
        /\ \E i \in 1..2 :
              /\ heap[result.leafs[i]].S = zeros(1, 1)
              /\ heap[result.leafs[i]].N = ones(1, 1)
              /\ result.probas[i] = FracSub(One, request.mus[1])

\* the scenario in reduced-hash mode with mu_1 = 1/3
C16_Witness ==
    /\ ScenarioA
    /\ ~FULLHASH
    /\ request.mus = Mus1
    /\ Len(result.leafs) = 2

SameCounters(a, b) == arrays(a) = arrays(b) /\ a.t = b.t

\* C17: expanding a State leaves S, Stilde, N, Ntilde and t of the parent as
\* they were; the transition applied to one copy changes no counter of another
\* child (every child is the parent's counters plus its own transition only);
\* the shared players and mus are never modified.
C17_ParentUntouched ==
    [][/\ request'.players = request.players
       /\ request'.mus = request.mus
       /\ \A id \in Nodes : id <= Len(heap') => SameCounters(heap'[id], heap[id])
       /\ trace' # trace =>
             \A i \in 1..Len(trace'.raw) :
                 arrays(trace'.raw[i].child) =
                     arrays(delta(copy(trace'.before), trace'.raw[i].decisions,
                                  trace'.raw[i].coin_flips))]_vars

\* a State with counters that are not all zero has just been expanded into
\* children that differ from it and from each other
C17_Witness ==
    /\ trace.node > 1
    /\ Len(request.players) = 2
    /\ npsum(trace.before.N) > 0
    /\ arrays(heap[trace.node]) = arrays(trace.before)
    /\ \E i, j \in 1..Len(trace.raw) :
          /\ arrays(trace.raw[i].child) # arrays(trace.raw[j].child)
          /\ arrays(trace.raw[i].child) # arrays(trace.before)

\* the calls explore_from_node_to_depth(depth - 1) on the children of node id,
\* in their order
ChildCalls(h, id, depth) ==
    [i \in 1..Len(h[id].children) |-> [node |-> h[id].children[i], depth |-> depth - 1]]

\* C18: explore_from_node_to_depth(0) changes nothing on the node (children,
\* probas, depth, t and counters are as before the call); for d >= 1 the node is
\* expanded exactly one level, and each child is then explored with depth d - 1
\* (for d = 1 that exploration of a child, with depth 0, changes nothing).
C18_ExploreStep ==
    [][(pc = "exploring" /\ stack # <<>> /\ pc' = "exploring") =>
          LET id == Head(stack).node
              d == Head(stack).depth
          IN  /\ d = 0 => heap' = heap /\ stack' = Tail(stack)
              /\ d >= 1 =>
                    /\ Len(heap') > Len(heap)
                    /\ Range(heap'[id].children) = (Len(heap) + 1)..Len(heap')
                    /\ Len(heap'[id].children) = Len(heap'[id].probas)
                    /\ \A x \in 1..Len(heap') :
                          x # id => /\ x <= Len(heap) => heap'[x] = heap[x]
                                    /\ x > Len(heap) => heap'[x].children = <<>>
                    /\ stack' = (IF d > 1 THEN ChildCalls(heap', id, d) ELSE <<>>)
                                    \o Tail(stack)]_vars

\* the call with depth 0 has returned on a root whose counters are not all
\* zero, and the root is as it was built
C18_Witness ==
    /\ pc = "exploring"
    /\ request.depth = 0
    /\ stack = <<>>
    /\ npsum(request.N) > 0
    /\ heap = <<State(request.S, request.Stilde, request.N, request.Ntilde, 0)>>

\* C19: after explore_from_node_to_depth(d) from a root created with depth 0,
\* every node at level i (0 <= i <= d) has depth d - i: the depth of a child is
\* the depth of its parent minus 1, the nodes with depth 0 are exactly the
\* unexpanded leaves (no children), and every node with depth > 0 has been
\* expanded.
C19_DepthFields ==
    (pc = "done" /\ request.depth >= 0) =>
        /\ \A i \in 0..request.depth :
              \A x \in Range(level(i)) : heap[x].depth = request.depth - i
        /\ \A id \in Nodes :
              /\ \A c \in Range(heap[id].children) : heap[c].depth = heap[id].depth - 1
              /\ heap[id].depth = 0 <=> heap[id].children = <<>>
              /\ heap[id].depth > 0 => id \in expanded

\* a tree explored to depth 2 in reduced-hash mode: root, inner nodes, leaves
C19_Witness ==
    /\ pc = "done" /\ request.depth = 2
    /\ ~FULLHASH
    /\ heap[1].depth = 2
    /\ \E id \in Nodes : heap[id].depth = 1 /\ Len(heap[id].children) >= 2
    /\ \E id \in Nodes : heap[id].depth = 0

\* C20: for every parent-child edge of an explored tree the t of the child is
\* the t of the parent plus 1, so that a node i levels below a root with t = 0
\* has t = i, for every M.
C20_TimeSteps ==
    \A id \in Nodes : \A c \in Range(heap[id].children) : heap[c].t = heap[id].t + 1

\* the unique leafs that get_unique_leafs() returned and is_absorbing() flags
FlaggedLeafs == {i \in 1..Len(result.leafs) : is_absorbing(heap[result.leafs[i]])}

\* the probabilities of the flagged unique leafs, in the order of the leafs
FlaggedProbas ==
    LET flagged == SelectSeq([i \in 1..Len(result.leafs) |->
                                 <<is_absorbing(heap[result.leafs[i]]), result.probas[i]>>],
                             LAMBDA e : e[1])
    IN  [x \in 1..Len(flagged) |-> flagged[x][2]]

FracLE(p, q) == p[1] * q[2] <= q[1] * p[2]

\* C21: proba_reaching_absorbing_state() on an explored root returns (count,
\* mass): count is the number of unique leafs for which is_absorbing() is true
\* and mass the sum of the probabilities of exactly those leafs; so
\* 0 <= count <= number of unique leafs and 0 <= mass <= 1.
C21_AbsorbingMass ==
    result.absorbed # <<>> =>
        /\ result.absorbed[1].nb_absorbing = Cardinality(FlaggedLeafs)
        /\ result.absorbed[1].bad_proba = sum(FlaggedProbas)
        /\ 0 <= result.absorbed[1].nb_absorbing
        /\ result.absorbed[1].nb_absorbing <= Len(result.leafs)
        /\ FracLE(Zero, result.absorbed[1].bad_proba)
        /\ FracLE(result.absorbed[1].bad_proba, One)

\* from the all-zero root to depth 2: some unique leafs are flagged, others
\* are not, and the mass is strictly between 0 and 1
C21_Witness ==
    /\ result.absorbed # <<>>
    /\ request.depth = 2
    /\ ZeroRooted
    /\ result.absorbed[1].nb_absorbing >= 1
    /\ result.absorbed[1].nb_absorbing < Len(result.leafs)
    /\ result.absorbed[1].bad_proba \notin {Zero, One}

\* every player runs the default policy
AllDefault == \A j \in 1..Len(request.players) : request.players[j] = default_policy

\* C22: when all players run the default policy Selfish_0Greedy_Ubar, a State
\* for which is_absorbing() is true has exactly one child after
\* compute_one_depth, and that child is flagged absorbing again.
C22_AbsorbingClosed ==
    (trace.node > 0 /\ AllDefault /\ is_absorbing(trace.before)) =>
        /\ Len(heap[trace.node].children) = 1
        /\ \A c \in Range(heap[trace.node].children) : is_absorbing(heap[c])

\* the State objects that are a child of some State
AllChildren == UNION {Range(heap[id].children) : id \in 1..Len(heap)}

\* the lengths of the children lists of the objects lo..hi, added up
RECURSIVE NbChildren(_, _)
NbChildren(lo, hi) ==
    IF lo > hi THEN 0
    ELSE IF lo = hi THEN Len(heap[lo].children)
    ELSE NbChildren(lo, (lo + hi) \div 2) + NbChildren(((lo + hi) \div 2) + 1, hi)

\* every State object is the child of at most one State, at one position (the
\* children lists hold as many objects as they have places); the root is the
\* child of none; a child was created after its parent
OwnedOnce ==
    /\ Cardinality(AllChildren) = NbChildren(1, Len(heap))
    /\ 1 \notin AllChildren
    /\ \A id \in Nodes : \A c \in Range(heap[id].children) : c \in Nodes /\ c > id

\* the tree below the root has height d exactly
HeightIs(d) ==
    /\ level(d) # <<>>
    /\ \A x \in Range(level(d)) : heap[x].children = <<>>

\* the number of pending calls explore_from_node_to_depth(k)
Pending(st, k) == Cardinality({i \in 1..Len(st) : st[i].depth = k})

PendingDepths(st) == {st[i].depth : i \in 1..Len(st)}

\* the pending calls after are fewer than before in the order that compares
\* the number of calls of the greatest depth first: a call has been replaced
\* by calls (any number of them) of smaller depths
Fewer(after, before) ==
    \E k \in PendingDepths(before) :
        /\ Pending(after, k) < Pending(before, k)
        /\ \A k2 \in PendingDepths(before) \cup PendingDepths(after) :
              k2 > k => Pending(after, k2) = Pending(before, k2)

\* C23: explore_from_node_to_depth(d) terminates for every d >= 0 and every
\* set of decision rules: every step of an exploration takes a pending call
\* away and puts in its place calls of smaller depths only, finitely many,
\* and the exploration is over when no call is pending; the tree it has built
\* then has height exactly d; at every moment no State object is reachable by
\* two different parent-child paths.
C23_Terminates ==
    [][/\ OwnedOnce'
       /\ (pc = "exploring" /\ stack # <<>>) =>
             (pc' = "error" \/ (pc' = "exploring" /\ Fewer(stack', stack)))
       /\ (pc = "exploring" /\ stack = <<>>) => pc' = "done"
       /\ (pc' = "done" /\ request.depth >= 0) => HeightIs(request.depth)']_vars

\* two players have explored to depth 2, in full-hash mode
C23_Witness ==
    /\ pc = "done"
    /\ request.depth = 2
    /\ FULLHASH
    /\ Len(request.players) = 2
    /\ Len(level(2)) > Len(level(1))
    /\ Len(level(1)) >= 10

\* the (key, probability) pairs of the unique leafs of the full-hash
\* exploration and of the reduced-hash one, when both have been made
FullPairs == IF FULLHASH THEN DOMAIN Summary.leafs ELSE DOMAIN first[1].leafs

ReducedPairs == IF FULLHASH THEN DOMAIN first[1].leafs ELSE DOMAIN Summary.leafs

\* the (Stilde, N) part of a full key (S, N, Stilde, Ntilde, t, depth)
StildeN(h) == <<h[3], h[2]>>

\* the sum of the probabilities of a set of (key, probability) pairs
RECURSIVE SumOfPairs(_)
SumOfPairs(pairs) ==
    IF pairs = {} THEN Zero
    ELSE LET x == CHOOSE x \in pairs : TRUE
         IN  FracAdd(x[2], SumOfPairs(pairs \ {x}))

\* C24: when every decision rule reads Stilde and N only (FixedArm,
\* UniformExploration, Selfish_0Greedy_Utilde), for every depth d >= 1 and
\* every (Stilde, N) value the reduced-mode unique-leaf probability of that
\* value is the sum of the full-mode unique-leaf probabilities of the leafs
\* with that (Stilde, N), and every full-mode leaf has its value among the
\* reduced-mode leafs.
C24_ExactLumping ==
    (/\ pc = "done" /\ run = 2 /\ request.depth >= 1
     /\ first[1].FULLHASH # FULLHASH
     /\ \A j \in 1..Len(request.players) : request.players[j] \in ReadsStildeN) =>
        /\ \A r \in ReducedPairs :
              r[2] = SumOfPairs({f \in FullPairs : StildeN(f[1]) = r[1]})
        /\ \A f \in FullPairs : \E r \in ReducedPairs : r[1] = StildeN(f[1])

\* two players with Selfish_0Greedy_Utilde explored to depth 2 in both modes
\* from counters with collisions: a reduced-mode leaf stands for several
\* full-mode leafs
C24_Witness ==
    /\ pc = "done" /\ run = 2 /\ request.depth = 2
    /\ request.players = <<"Selfish_0Greedy_Utilde", "Selfish_0Greedy_Utilde">>
    /\ request.N = ones(2, 2)
    /\ Cardinality(ReducedPairs) >= 2
    /\ \E r \in ReducedPairs :
          Cardinality({f \in FullPairs : StildeN(f[1]) = r[1]}) >= 2

\* the number of rounds player j has played in State s
RoundsOf(s, j) == rowSum(s.N[j], Cols(s.N))

\* C25: in a tree explored from the all-zero root every player plays exactly
\* one arm per round: at every node of level i the line of N of each player
\* sums to i, and all the entries of N to M * i, in both hash modes.
C25_OneArmPerRound ==
    (pc = "done" /\ ZeroRooted) =>
        \A i \in 0..request.depth : \A x \in Range(level(i)) :
            /\ \A j \in Players : RoundsOf(heap[x], j) = i
            /\ npsum(heap[x].N) = Len(request.players) * i

\* two players, depth 2, reduced-hash mode: a leaf where the players collided
\* in one round and a leaf where one player played both arms
C25_Witness ==
    /\ pc = "done" /\ ZeroRooted /\ ~FULLHASH
    /\ request.depth = 2 /\ Len(request.players) = 2
    /\ \E x \in Range(level(2)) : heap[x].Ntilde[0][0] < heap[x].N[0][0]
    /\ \E x \in Range(level(2)) : heap[x].N[0][0] = 1 /\ heap[x].N[0][1] = 1

\* entrywise 0 <= S <= N and 0 <= Stilde <= Ntilde, with whole numbers
SuccessesWithinTrials(s) ==
    \A j \in DOMAIN s.N : \A k \in DOMAIN s.N[j] :
        /\ s.S[j][k] \in Nat /\ s.Stilde[j][k] \in Nat
        /\ s.S[j][k] <= s.N[j][k]
        /\ s.Stilde[j][k] <= s.Ntilde[j][k]

\* C26: in every State reachable from the all-zero root the success counts
\* never exceed the trial counts on either feedback channel: entrywise
\* 0 <= S <= N and 0 <= Stilde <= Ntilde, every entry of S and of Stilde being
\* an integer.
C26_SuccessesWithinTrials ==
    ZeroRooted => \A s \in Built : SuccessesWithinTrials(s)

\* below the all-zero root, two levels down: a State where a player saw two
\* successes in two collisions (S = N = 2, Stilde = Ntilde = 0), one where it
\* was credited both times (Stilde = Ntilde = 2), one without any success
C26_Witness ==
    /\ ZeroRooted /\ pc = "done" /\ request.depth = 2 /\ FULLHASH
    /\ \E x \in Range(level(2)) :
          /\ heap[x].S[0][0] = 2 /\ heap[x].N[0][0] = 2
          /\ heap[x].Ntilde[0][0] = 0
    /\ \E x \in Range(level(2)) :
          /\ heap[x].Stilde[0][0] = 2 /\ heap[x].Ntilde[0][0] = 2
    /\ \E x \in Range(level(2)) :
          /\ heap[x].S[0][0] = 0 /\ heap[x].N[0][0] = 2

\* C27: with a single player no collision ever occurs: in every State reached
\* from the all-zero root Stilde = S and Ntilde = N, no State is flagged
\* absorbing, and proba_reaching_absorbing_state() returns the count 0 and the
\* mass 0 at every depth.
C27_SinglePlayer ==
    (Len(request.players) = 1 /\ ZeroRooted) =>
        /\ \A s \in Built :
              s.Stilde = s.S /\ s.Ntilde = s.N /\ ~is_absorbing(s)
        /\ \A i \in 1..Len(result.leafs) : ~result.absorbing[i]
        /\ result.absorbed # <<>> =>
              /\ result.absorbed[1].nb_absorbing = 0
              /\ result.absorbed[1].bad_proba = Zero

\* one player exploring two arms uniformly to depth 2: every arm has been
\* tried and rewarded in some leaf, and the absorbing mass has been computed
C27_Witness ==
    /\ Len(request.players) = 1 /\ ZeroRooted
    /\ request.depth = 2 /\ Len(request.mus) = 2
    /\ result.absorbed # <<>>
    /\ Len(result.leafs) >= 4
    /\ \E i \in 1..Len(result.leafs) :
          /\ heap[result.leafs[i]].N[0][0] = 1 /\ heap[result.leafs[i]].N[0][1] = 1
          /\ heap[result.leafs[i]].Stilde[0][0] = 1 /\ heap[result.leafs[i]].Stilde[0][1] = 1

\* the arms chosen in the joint decision vector d
ChosenArms(d) == {d[j] : j \in DOMAIN d}

\* the joint decision vectors of the last expansion
JointDecisions == {trace.raw[i].decisions : i \in 1..Len(trace.raw)}

\* the sum over the joint decision vectors ds of 2^(number of arms chosen)
RECURSIVE OutcomesOf(_)
OutcomesOf(ds) ==
    IF ds = {} THEN 0
    ELSE LET d == CHOOSE d \in ds : TRUE
         IN  (2 ^ Cardinality(ChosenArms(d))) + OutcomesOf(ds \ {d})

\* C28: the realizations of arms that no player chose do not affect the
\* resulting State: two raw transitions with the same joint decision vector
\* whose realizations agree on every chosen arm produce children with the same
\* S, Stilde, N, Ntilde, which compute_one_depth merges into one child; so a
\* node has at most as many children as the sum over the joint decision
\* vectors of 2^(number of distinct arms chosen in the vector).
C28_UnchosenArmsIgnored ==
    trace.node > 0 =>
        /\ \A i, i2 \in 1..Len(trace.raw) :
              (/\ trace.raw[i].decisions = trace.raw[i2].decisions
               /\ \A k \in ChosenArms(trace.raw[i].decisions) :
                     trace.raw[i].coin_flips[k] = trace.raw[i2].coin_flips[k])
                  => /\ arrays(trace.raw[i].child) = arrays(trace.raw[i2].child)
                     /\ hash(trace.raw[i].child) = hash(trace.raw[i2].child)
        /\ Len(heap[trace.node].children) <= OutcomesOf(JointDecisions)

\* full-hash mode, two players exploring two arms uniformly: of the 16 raw
\* transitions those that differ in the unchosen arm alone fall together, and
\* the 12 children are as many as the bound allows
C28_Witness ==
    /\ trace.node > 0 /\ FULLHASH
    /\ Len(request.players) = 2 /\ Len(request.mus) = 2
    /\ Cardinality(JointDecisions) = 4
    /\ Len(trace.raw) = 16
    /\ Len(heap[trace.node].children) = 12
    /\ OutcomesOf(JointDecisions) = 12
    /\ \E i, i2 \in 1..Len(trace.raw) :
          /\ i # i2
          /\ trace.raw[i].decisions = trace.raw[i2].decisions
          /\ trace.raw[i].coin_flips # trace.raw[i2].coin_flips
          /\ arrays(trace.raw[i].child) = arrays(trace.raw[i2].child)

\* the arms that player j has not tried in State s
Untried(s, j) == {k \in DOMAIN s.N[j] : s.N[j][k] = 0}

\* the index of arm k for player j on tried arms, as numerator and denominator:
\* S / N, Stilde / N, (Ntilde / N) * (S / N)
IndexOf(name, s, j, k) ==
    CASE name = "Selfish_0Greedy_U" -> <<s.S[j][k], s.N[j][k]>>
      [] name = "Selfish_0Greedy_Utilde" -> <<s.Stilde[j][k], s.N[j][k]>>
      [] name = "Selfish_0Greedy_Ubar" -> <<s.Ntilde[j][k] * s.S[j][k], s.N[j][k] * s.N[j][k]>>

\* the arms whose index is the greatest
BestArms(name, s, j) ==
    {k \in DOMAIN s.N[j] :
        \A k2 \in DOMAIN s.N[j] :
            IndexOf(name, s, j, k2)[1] * IndexOf(name, s, j, k)[2]
                <= IndexOf(name, s, j, k)[1] * IndexOf(name, s, j, k2)[2]}

\* the root is the all-zero root of M lines and K columns, as main builds it
MainZeroRoot ==
    request.N = zeros(Len(request.players), Len(request.mus))

\* C29: for Selfish_0Greedy_U, Selfish_0Greedy_Utilde and Selfish_0Greedy_Ubar:
\* whenever player j has an arm with N[j][k] = 0 the returned candidates are
\* exactly the arms k with N[j][k] = 0, otherwise exactly the arms attaining
\* the maximum index, each arm once; from the all-zero root (M lines, K
\* columns) the candidates of every player are all K arms.
C29_SelfishCandidates ==
    trace.node > 0 =>
        \A j \in Players :
            request.players[j + 1] \in Selfish =>
                LET returned == player(request.players[j + 1], j, trace.before)
                IN  /\ Len(returned) = Cardinality(Range(returned))
                    /\ Range(returned) =
                          IF Untried(trace.before, j) # {}
                          THEN Untried(trace.before, j)
                          ELSE BestArms(request.players[j + 1], trace.before, j)
                    /\ (MainZeroRoot /\ trace.node = 1) => Range(returned) = Arms

\* one level below the all-zero root, two players with a Selfish rule: the
\* first has tried arm 0 alone and returns arm 1 alone, the second has tried
\* arm 1 alone and returns arm 0 alone
C29_Witness ==
    /\ trace.node > 1
    /\ MainZeroRoot
    /\ Len(request.players) = 2 /\ Len(request.mus) = 2
    /\ request.players[1] \in Selfish /\ request.players[2] \in Selfish
    /\ Untried(trace.before, 0) = {1} /\ Candidates(0) = {1}
    /\ Untried(trace.before, 1) = {0} /\ Candidates(1) = {0}

\* C30: calling explore_from_node_to_depth(d) a second time on the same root
\* with the same d rebuilds children and probas: the root has depth d, every
\* level has the same number of children with the same keys and probabilities,
\* and get_unique_leafs() returns what it returned after the first call.
C30_Idempotent ==
    (pc = "done" /\ run = 2 /\ request.depth >= 0) =>
        /\ heap[1].depth = request.depth
        /\ SameAsFirst

====
